---- MODULE Spec2Model ----
(***************************************************************************)
(* Railway API server (src/main.py): the multi-source retrieval engine.    *)
(*                                                                         *)
(* One /status/<train_no> request is followed from get_train_status_multi  *)
(* through fetch_train_data_multi_source, the NTES retry loop              *)
(* (fetch_data_with_retry), the RailYatri and Ixigo scrapers, down to the  *)
(* HTTP response.  Every blocking requests.get is one step; the India      *)
(* clock advances while a request blocks and while the code sleeps.        *)
(*                                                                         *)
(* An HTML body is a flat list of elements [tag, id, class, color, text]   *)
(* in document order; soup.find is "first element matching", find_all is   *)
(* "all elements matching", get_text is the concatenation of the texts.    *)
(***************************************************************************)
EXTENDS Integers, Sequences, FiniteSets, TLC

VARIABLES
    pc,           \* position of the request handler: "idle", "fetching" (at a
                  \* requests.get), "backoff" (at the time.sleep of the retry
                  \* loop), "cooldown" (at the time.sleep after a source), "done"
    now,          \* India wall clock, seconds since 1970-01-01 00:00:00 IST
    train_no,     \* the <train_no> of the route
    source,       \* index in Sources of the source being tried
    candidate,    \* index in NtesDateOffsets of the NTES date being tried
    target_date,  \* the date string of the running fetch_data_with_retry call
    attempt,      \* loop variable of fetch_data_with_retry
    latency,      \* seconds a requests.get of this request takes to answer
    trace,        \* what the handler did so far: requests.get calls and sleeps
    result,       \* what fetch_train_data_multi_source returned
    response,     \* the HTTP response of get_train_status_multi
    markup,       \* a 200 body handed to a parser on its own
    parsed        \* the records the parser built from markup, oldest first

vars == <<pc, now, train_no, source, candidate, target_date, attempt, latency,
          trace, result, response, markup, parsed>>

-----------------------------------------------------------------------------
(* Program constants *)

max_retries == 2

NtesTimeout == 25

ScraperTimeout == 20

TimeoutWait == 2

SourceCooldown == 1

MinNameLen == 3

(* Bounds of the model *)

\* the upstream servers answer a requests.get that does not time out after
\* 0..MaxLatency seconds
MaxLatency == 1

\* the most elements of a body handed to a parser on its own
MaxElems == 2

\* the most times one body is parsed
MaxParses == 2

-----------------------------------------------------------------------------
(* Python values *)

None == [none |-> TRUE]

\* Python truthiness of a value that is None or a dict
Truthy(v) == v # None

SecondsPerDay == 24 * 60 * 60

\* strftime's %d, %m, %H, %M, %S: two digits, zero padded
Pad2(n) == IF n < 10 THEN "0" \o ToString(n) ELSE ToString(n)

\* the proleptic Gregorian date <<year, month, day>> of day number `days`
\* (days since 1970-01-01), as datetime computes it
CivilFromDays(days) ==
    LET z   == days + 719468
        era == z \div 146097
        doe == z - era * 146097
        yoe == (doe - doe \div 1460 + doe \div 36524 - doe \div 146096) \div 365
        doy == doe - (365 * yoe + yoe \div 4 - yoe \div 100)
        mp  == (5 * doy + 2) \div 153
        d   == doy - (153 * mp + 2) \div 5 + 1
        m   == IF mp < 10 THEN mp + 3 ELSE mp - 9
        y   == yoe + era * 400 + (IF m <= 2 THEN 1 ELSE 0)
    IN  <<y, m, d>>

\* strftime('%d-%m-%Y') of the instant t
FormatDate(t) ==
    LET ymd == CivilFromDays(t \div SecondsPerDay)
    IN  Pad2(ymd[3]) \o "-" \o Pad2(ymd[2]) \o "-" \o ToString(ymd[1])

\* strftime('%H:%M:%S') of the instant t
FormatTime(t) ==
    LET s == t % SecondsPerDay
    IN  Pad2(s \div 3600) \o ":" \o Pad2((s % 3600) \div 60) \o ":" \o Pad2(s % 60)

\* strftime('%Y-%m-%d %H:%M:%S') of the instant t
FormatDateTime(t) ==
    LET ymd == CivilFromDays(t \div SecondsPerDay)
    IN  ToString(ymd[1]) \o "-" \o Pad2(ymd[2]) \o "-" \o Pad2(ymd[3])
            \o " " \o FormatTime(t)

\* get_india_date() read at the instant t
get_india_date(t) == FormatDate(t)

\* get_india_date_offset(days) read at the instant t
get_india_date_offset(t, days) == FormatDate(t + days * SecondsPerDay)

\* get_india_datetime() read at the instant t
get_india_datetime(t) == FormatDateTime(t)

-----------------------------------------------------------------------------
(* Text *)

\* A str that can hold text of a page is the sequence of its code points;
\* the strs the program makes itself (dates, train_no, source names, the
\* 404 body) stay strings.

\* the ASCII characters from the blank (32) to "_" (95)
AsciiLow ==
    " !\"#$%&'()*+,-./0123456789:;<=>?@ABCDEFGHIJKLMNOPQRSTUVWXYZ[\\]^_"

\* the ASCII characters from "a" (97) to "~" (126)
AsciiHigh == "abcdefghijklmnopqrstuvwxyz{|}~"

\* ord() of the characters of the two lines above
Ord ==
    [ c \in { SubSeq(AsciiLow, k, k) : k \in 1..Len(AsciiLow) } \cup
            { SubSeq(AsciiHigh, k, k) : k \in 1..Len(AsciiHigh) } |->
        IF \E k \in 1..Len(AsciiLow) : SubSeq(AsciiLow, k, k) = c
        THEN 31 + CHOOSE k \in 1..Len(AsciiLow) : SubSeq(AsciiLow, k, k) = c
        ELSE 96 + CHOOSE k \in 1..Len(AsciiHigh) : SubSeq(AsciiHigh, k, k) = c ]

\* the str a literal of the program writes
Text(s) == [ i \in 1..Len(s) |-> Ord[SubSeq(s, i, i)] ]

\* the characters str.strip() removes: those str.isspace() is true of
Whitespace ==
    (9..13) \cup (28..32) \cup {133, 160, 5760} \cup (8192..8202)
        \cup {8232, 8233, 8239, 8287, 12288}

\* the zero of every run of ten decimal digits (Unicode category Nd)
DigitZeros ==
    { 48, 1632, 1776, 1984, 2406, 2534, 2662, 2790, 2918, 3046, 3174, 3302,
      3430, 3558, 3664, 3792, 3872, 4160, 4240, 6112, 6160, 6470, 6608,
      6784, 6800, 6992, 7088, 7232, 7248, 42528, 43216, 43264, 43472, 43504,
      43600, 44016, 65296, 66720, 68912, 69734, 69872, 69942, 70096, 70384,
      70736, 70864, 71248, 71360, 71472, 71904, 72016, 72784, 73040, 73120,
      92768, 92864, 93008, 120782, 120792, 120802, 120812, 120822, 123200,
      123632, 125264, 130032 }

\* the characters \d matches in a str pattern, which int() converts
Digits == UNION { z..(z + 9) : z \in DigitZeros }

\* the characters [A-Z] matches
Upper == 65..90

CharAt(s, i) == s[i]

IsDigit(c) == c \in Digits

DigitValue(c) == c - (CHOOSE z \in DigitZeros : c \in z..(z + 9))

\* str.lstrip(): s from its first character that is not whitespace
LStrip(s) ==
    LET first == CHOOSE k \in 1..(Len(s) + 1) :
                     /\ k = Len(s) + 1 \/ CharAt(s, k) \notin Whitespace
                     /\ \A h \in 1..(k - 1) : CharAt(s, h) \in Whitespace
    IN  SubSeq(s, first, Len(s))

\* str.rstrip(): s up to its last character that is not whitespace
RStrip(s) ==
    LET last == CHOOSE k \in 0..Len(s) :
                    /\ k = 0 \/ CharAt(s, k) \notin Whitespace
                    /\ \A h \in (k + 1)..Len(s) : CharAt(s, h) \in Whitespace
    IN  SubSeq(s, 1, last)

\* str.strip()
Strip(s) == RStrip(LStrip(s))

\* the end of the run of digits of s that starts at i
DigitRunEnd(s, i) ==
    CHOOSE e \in i..Len(s) :
        /\ e = Len(s) \/ ~IsDigit(CharAt(s, e + 1))
        /\ \A h \in (i + 1)..e : IsDigit(CharAt(s, h))

\* sys.get_int_max_str_digits(): the longest string of digits int() converts
\* (CPython 3.11 and later, and the security releases of 3.7 to 3.10)
int_max_str_digits == 4300

\* int() of a string of digits raises ValueError
IntRaises(ds) == Len(ds) > int_max_str_digits

\* what stands for the exception where a value would be
ValueError == "ValueError"

\* int() of a string of digits: its value, or ValueError
RECURSIVE IntOfDigits(_)
IntOfDigits(ds) ==
    IF IntRaises(ds) THEN ValueError
    ELSE IF Len(ds) = 0 THEN 0
    ELSE 10 * IntOfDigits(SubSeq(ds, 1, Len(ds) - 1)) + DigitValue(CharAt(ds, Len(ds)))

\* the n-th smallest of a set of positions
Nth(S, n) == CHOOSE k \in S : Cardinality({ h \in S : h < k }) = n - 1

\* re.findall(r'\d+', s) from position i on: the maximal runs of digits,
\* left to right
FindAllDigits(s, i) ==
    LET starts == { k \in i..Len(s) :
                      /\ IsDigit(CharAt(s, k))
                      /\ k = i \/ ~IsDigit(CharAt(s, k - 1)) }
    IN  [ n \in 1..Cardinality(starts) |->
            LET b == Nth(starts, n) IN SubSeq(s, b, DigitRunEnd(s, b)) ]

\* the start of the run of capitals of s, scanned from i on, that k is in
UpperRunStart(s, i, k) ==
    1 + CHOOSE h \in (i - 1)..(k - 1) :
            /\ h = i - 1 \/ CharAt(s, h) \notin Upper
            /\ \A g \in (h + 1)..(k - 1) : CharAt(s, g) \in Upper

\* re.findall(r'[A-Z]{4}', s) from position i on: non-overlapping, left to
\* right, so every fourth position of a run of capitals starts a match
FindAllCodes(s, i) ==
    LET starts == { k \in i..(Len(s) - 3) :
                      /\ \A d \in 0..3 : CharAt(s, k + d) \in Upper
                      /\ (k - UpperRunStart(s, i, k)) % 4 = 0 }
    IN  [ n \in 1..Cardinality(starts) |->
            LET b == Nth(starts, n) IN SubSeq(s, b, b + 3) ]

-----------------------------------------------------------------------------
(* Parsed markup (BeautifulSoup) *)

Element(tag, id, classes, color, text) ==
    [tag |-> tag, id |-> id, class |-> classes, color |-> color, text |-> text]

\* soup.find: the first of the elements that match, or None
FirstOrNone(hits) == IF Len(hits) = 0 THEN None ELSE hits[1]

\* soup.find(tag)
FindTag(soup, tag) ==
    LET Match(e) == e.tag = tag IN FirstOrNone(SelectSeq(soup, Match))

\* soup.find(tag, {'id': id})
FindId(soup, tag, id) ==
    LET Match(e) == e.tag = tag /\ e.id = id IN FirstOrNone(SelectSeq(soup, Match))

\* soup.find(tag, {'class': c}) and soup.find(tag, class_=c)
FindClass(soup, tag, c) ==
    LET Match(e) == e.tag = tag /\ c \in e.class IN FirstOrNone(SelectSeq(soup, Match))

\* soup.find(tag, {'color': color})
FindColor(soup, tag, color) ==
    LET Match(e) == e.tag = tag /\ e.color = color IN FirstOrNone(SelectSeq(soup, Match))

\* soup.find_all(tag, {'class': c})
FindAllClass(soup, tag, c) ==
    LET Match(e) == e.tag = tag /\ c \in e.class IN SelectSeq(soup, Match)

\* soup.get_text()
RECURSIVE GetText(_)
GetText(soup) ==
    IF Len(soup) = 0 THEN <<>> ELSE Head(soup).text \o GetText(Tail(soup))

\* `if selector and selector.text`: the element exists and its text is not empty
Accepted(sel) == sel # None /\ Len(sel.text) > 0

\* (mutant) the last selector of the list that is accepted
FirstAccepted_Last(sels) ==
    IF \E i \in 1..Len(sels) : Accepted(sels[i])
    THEN CHOOSE i \in 1..Len(sels) :
            Accepted(sels[i]) /\ \A j \in (i + 1)..Len(sels) : ~Accepted(sels[j])
    ELSE 0

\* the first selector of the list that is accepted, 0 when none is:
\* `for selector in selectors: if selector and selector.text: ...; break`
FirstAccepted(sels) ==
    IF \E i \in 1..Len(sels) : Accepted(sels[i])
    THEN CHOOSE i \in 1..Len(sels) :
            Accepted(sels[i]) /\ \A j \in 1..(i - 1) : ~Accepted(sels[j])
    ELSE 0

\* (mutant) the last number of the text instead of the first
FirstNumber_Last(text, default) ==
    LET numbers == FindAllDigits(text, 1)
    IN  IF Len(numbers) > 0 THEN IntOfDigits(numbers[Len(numbers)]) ELSE default

\* int(numbers[0]) if numbers else the value kept; ValueError when int() raises
FirstNumber(text, default) ==
    LET numbers == FindAllDigits(text, 1)
    IN  IF Len(numbers) > 0 THEN IntOfDigits(numbers[1]) ELSE default

\* `int(numbers[0])` raises ValueError
FirstNumberRaises(text) ==
    LET numbers == FindAllDigits(text, 1)
    IN  Len(numbers) > 0 /\ IntRaises(numbers[1])

\* the train-name loop of parse_ntes_html.  train_name None is written <<>>:
\* every test the code makes of it (`if train_name`, `not train_name`)
\* treats None and '' alike.
RECURSIVE NtesNameLoop(_, _, _)
NtesNameLoop(sels, i, train_name) ==
    IF i > Len(sels) THEN train_name
    ELSE IF Accepted(sels[i])
         THEN LET name == Strip(sels[i].text)
              IN  IF Len(name) > MinNameLen THEN name
                  ELSE NtesNameLoop(sels, i + 1, name)
         ELSE NtesNameLoop(sels, i + 1, train_name)

NtesTrainName(soup, trainNo) ==
    LET selectors == << FindId(soup, "span", "lblTrainName"),
                        FindClass(soup, "div", "train-name"),
                        FindTag(soup, "h3"),
                        FindTag(soup, "h2"),
                        FindTag(soup, "title") >>
        train_name == NtesNameLoop(selectors, 1, <<>>)
    IN  IF train_name = <<>> THEN Text("Train " \o trainNo) ELSE train_name

NtesStatus(soup) ==
    LET selectors == << FindId(soup, "span", "lblRunningStatus"),
                        FindClass(soup, "div", "status") >>
        k == FirstAccepted(selectors)
    IN  IF k = 0 THEN Text("Running") ELSE Strip(selectors[k].text)

NtesLocation(soup) ==
    LET selectors == << FindId(soup, "span", "lblLastLocation"),
                        FindClass(soup, "div", "location"),
                        FindId(soup, "span", "lblCurrentStation") >>
        k == FirstAccepted(selectors)
    IN  IF k = 0 THEN Text("N/A") ELSE Strip(selectors[k].text)

NtesDelaySelectors(soup) ==
    << FindId(soup, "span", "lblDelay"),
       FindClass(soup, "div", "delay"),
       FindColor(soup, "font", "red") >>

NtesDelay(soup) ==
    LET selectors == NtesDelaySelectors(soup)
        k == FirstAccepted(selectors)
    IN  IF k = 0 THEN 0 ELSE FirstNumber(Strip(selectors[k].text), 0)

\* the delay loop raises: int() of the first number of the delay text
NtesDelayRaises(soup) ==
    LET selectors == NtesDelaySelectors(soup)
        k == FirstAccepted(selectors)
    IN  k # 0 /\ FirstNumberRaises(Strip(selectors[k].text))

\* <<source, destination>>
NtesStations(soup) ==
    LET station_spans == FindAllClass(soup, "span", "station-code")
        station_codes == FindAllCodes(GetText(soup), 1)
    IN  IF Len(station_spans) >= 2
        THEN << Strip(station_spans[1].text),
                Strip(station_spans[Len(station_spans)].text) >>
        ELSE IF Len(station_codes) >= 2
             THEN << station_codes[1], station_codes[Len(station_codes)] >>
             ELSE << Text("N/A"), Text("N/A") >>

\* (mutant) the record is dated with the clock, as the other scrapers do
NtesRecordDate_Today(targetDate, t) == get_india_date(t)

\* the "date" of the record parse_ntes_html builds
NtesRecordDate(targetDate, t) == targetDate

\* parse_ntes_html(html, train_no, target_date), returning at the instant t.
\* html.wellformed = FALSE is markup the parser raises on.  Whatever is
\* raised inside the try, int()'s ValueError too, ends in `return None`.
parse_ntes_html(html, trainNo, targetDate, t) ==
    IF ~html.wellformed \/ NtesDelayRaises(html.elems) THEN None
    ELSE LET soup == html.elems
             stations == NtesStations(soup)
         IN  [ train_no         |-> trainNo,
               train_name       |-> NtesTrainName(soup, trainNo),
               status           |-> NtesStatus(soup),
               current_location |-> NtesLocation(soup),
               delay_minutes    |-> NtesDelay(soup),
               date             |-> NtesRecordDate(targetDate, t),
               last_updated     |-> Text(FormatTime(t)),
               source           |-> stations[1],
               destination      |-> stations[2],
               data_source      |-> "NTES" ]

-----------------------------------------------------------------------------
(* RailYatri and Ixigo markup *)

RailYatriTrainName(soup, trainNo) ==
    LET selectors == << FindClass(soup, "h1", "train-heading"),
                        FindClass(soup, "div", "train-name"),
                        FindTag(soup, "title") >>
        k == FirstAccepted(selectors)
        train_name == IF k = 0 THEN <<>> ELSE Strip(selectors[k].text)
    IN  IF train_name = <<>> THEN Text("Train " \o trainNo) ELSE train_name

RailYatriLocation(soup) ==
    LET selectors == << FindClass(soup, "span", "current-location"),
                        FindClass(soup, "div", "live-location"),
                        FindClass(soup, "div", "station-name") >>
        k == FirstAccepted(selectors)
    IN  IF k = 0 THEN Text("N/A") ELSE Strip(selectors[k].text)

RailYatriDelay(soup) ==
    LET delay_elem == FindClass(soup, "span", "delay-value")
    IN  IF delay_elem = None THEN 0 ELSE FirstNumber(delay_elem.text, 0)

RailYatriDelayRaises(soup) ==
    LET delay_elem == FindClass(soup, "span", "delay-value")
    IN  delay_elem # None /\ FirstNumberRaises(delay_elem.text)

RailYatriStations(soup) ==
    LET station_codes == FindAllClass(soup, "span", "station-code")
    IN  IF Len(station_codes) >= 2
        THEN << Strip(station_codes[1].text),
                Strip(station_codes[Len(station_codes)].text) >>
        ELSE << Text("N/A"), Text("N/A") >>

RailYatriLastUpdated(soup, t) ==
    LET time_elem == FindClass(soup, "span", "update-time")
    IN  IF time_elem = None THEN Text(FormatTime(t)) ELSE Strip(time_elem.text)

\* the record fetch_from_railyatri builds from a 200 body, at the instant t
ParseRailYatri(html, trainNo, t) ==
    IF ~html.wellformed \/ RailYatriDelayRaises(html.elems) THEN None
    ELSE LET soup == html.elems
             stations == RailYatriStations(soup)
         IN  [ train_no         |-> trainNo,
               train_name       |-> RailYatriTrainName(soup, trainNo),
               status           |-> Text("Running"),
               current_location |-> RailYatriLocation(soup),
               delay_minutes    |-> RailYatriDelay(soup),
               date             |-> get_india_date(t),
               last_updated     |-> RailYatriLastUpdated(soup, t),
               source           |-> stations[1],
               destination      |-> stations[2],
               data_source      |-> "RailYatri" ]

IxigoTrainName(soup, trainNo) ==
    LET h1 == FindTag(soup, "h1")
        train_name == IF h1 = None THEN <<>> ELSE Strip(h1.text)
    IN  IF train_name = <<>> THEN Text("Train " \o trainNo) ELSE train_name

IxigoLocation(soup) ==
    LET selectors == << FindClass(soup, "div", "current-location"),
                        FindClass(soup, "span", "station-name"),
                        FindClass(soup, "div", "live-location") >>
        k == FirstAccepted(selectors)
    IN  IF k = 0 THEN Text("N/A") ELSE Strip(selectors[k].text)

IxigoDelaySelectors(soup) ==
    << FindClass(soup, "span", "delay"),
       FindClass(soup, "div", "delay-info") >>

IxigoDelay(soup) ==
    LET selectors == IxigoDelaySelectors(soup)
        k == FirstAccepted(selectors)
    IN  IF k = 0 THEN 0 ELSE FirstNumber(selectors[k].text, 0)

IxigoDelayRaises(soup) ==
    LET selectors == IxigoDelaySelectors(soup)
        k == FirstAccepted(selectors)
    IN  k # 0 /\ FirstNumberRaises(selectors[k].text)

\* the record fetch_from_ixigo builds from a 200 body, at the instant t
ParseIxigo(html, trainNo, t) ==
    IF ~html.wellformed \/ IxigoDelayRaises(html.elems) THEN None
    ELSE LET soup == html.elems
         IN  [ train_no         |-> trainNo,
               train_name       |-> IxigoTrainName(soup, trainNo),
               status           |-> Text("Running"),
               current_location |-> IxigoLocation(soup),
               delay_minutes    |-> IxigoDelay(soup),
               date             |-> get_india_date(t),
               last_updated     |-> Text(FormatTime(t)),
               source           |-> Text("N/A"),
               destination      |-> Text("N/A"),
               data_source      |-> "Ixigo" ]

-----------------------------------------------------------------------------
(* Inputs: the route parameter, the clock, what the upstream servers do *)

TrainNos == {"12951", "7"}

Instant(days, h, m, sec) == days * SecondsPerDay + h * 3600 + m * 60 + sec

\* 31-12-2025 23:59:59 IST (a second before midnight and the new year) and
\* 01-03-2024 10:00:00 IST (the day after a leap day)
StartInstants == { Instant(20453, 23, 59, 59), Instant(19783, 10, 0, 0) }

\* <html></html>: markup that parses and holds no element at all
NoSignalBody == [wellformed |-> TRUE, elems |-> <<>>]

\* markup the parser raises on
UnparsableBody == [wellformed |-> FALSE, elems |-> <<>>]

\* a page that holds the markers of a running train
LiveBody ==
    [wellformed |-> TRUE,
     elems |-> << Element("title", "", {}, "", Text("Live Status")),
                  Element("h1", "", {"train-heading"}, "", Text(" MUMBAI RAJDHANI ")),
                  Element("span", "lblTrainName", {}, "", Text("12951 MUMBAI RAJDHANI")),
                  Element("span", "lblRunningStatus", {}, "", Text("Running Late")),
                  Element("span", "lblLastLocation", {}, "", Text("KOTA JN")),
                  Element("span", "", {"current-location"}, "", Text("Kota")),
                  Element("span", "lblDelay", {}, "", Text("Running 12 min late")),
                  Element("span", "", {"delay-value"}, "", Text("12 min")),
                  Element("span", "", {"delay"}, "", Text("late by 12")),
                  Element("span", "", {"station-code"}, "", Text("NDLS")),
                  Element("span", "", {"station-code"}, "", Text("BCT")) >>]

\* the elements a body handed to a parser is made of: the markers the three
\* parsers look for, with texts that are short, blank, empty, padded with
\* a form feed (12) and a no-break space (160), with ASCII, Devanagari
\* (2406..2415) and Arabic-Indic (1632..1641) digits, and without digits
ElementPool ==
    { Element("span",  "lblTrainName",     {},                "",    Text("AB")),
      Element("title", "",                 {},                "",    Text("Live Status")),
      Element("h3",    "",                 {},                "",    <<32, 12>>),
      Element("h1",    "",                 {"train-heading"}, "",    Text("Rajdhani")),
      Element("span",  "lblRunningStatus", {},                "",    <<>>),
      Element("div",   "",                 {"status"},        "",
              <<12>> \o Text("On Time") \o <<160>>),
      Element("span",  "lblLastLocation",  {},                "",    Text("KOTA JN")),
      Element("div",   "",                 {"location"},      "",    Text(" Mathura")),
      Element("span",  "lblDelay",         {},                "",
              Text("Running 12 min late")),
      Element("span",  "lblDelay",         {},                "",    Text("On time")),
      Element("div",   "",                 {"delay"},         "",    Text("5 min 30")),
      Element("font",  "",                 {},                "red", <<57, 1632>>),
      Element("span",  "",                 {"delay"},         "",    Text("late by 7")),
      Element("div",   "",                 {"delay-info"},    "",
              <<2406, 2410, 2406>> \o Text(" min")),
      Element("span",  "",                 {"delay-value"},   "",    Text("no delay")),
      Element("span",  "",                 {"station-code"},  "",    Text("NDLS")),
      Element("span",  "",                 {"station-code"},  "",    Text("BCT ")) }

\* a delay element of each of the three pages whose text is a number of one
\* digit more than int() converts
LongDelay ==
    Element("span", "lblDelay", {"delay", "delay-value"}, "",
            [i \in 1..(int_max_str_digits + 1) |-> 49])

\* the bodies that hold it: alone, and after a delay element the NTES parser
\* finds first
OverflowBodies ==
    { [wellformed |-> TRUE, elems |-> << LongDelay >>],
      [wellformed |-> TRUE,
       elems |-> << Element("span", "lblDelay", {}, "", Text("On time")),
                    LongDelay >>] }

\* bodies that tell the last station from the second: three station-code
\* spans, and texts with three runs of four capitals, beside one span or none
StationBodies ==
    { [wellformed |-> TRUE,
       elems |-> << Element("span", "", {"station-code"}, "", Text("NDLS")),
                    Element("span", "", {"station-code"}, "", Text(" KOTA ")),
                    Element("span", "", {"station-code"}, "", Text("MMCT")) >>],
      [wellformed |-> TRUE,
       elems |-> << Element("h1", "", {"train-heading"}, "", Text("NDLS-KOTA-MMCT")) >>],
      [wellformed |-> TRUE,
       elems |-> << Element("span", "", {"station-code"}, "", Text("BCT ")),
                    Element("h1", "", {"train-heading"}, "", Text("Via NDLS, ABCDEFGHIJ")) >>] }

\* the bodies handed to a parser on its own: up to MaxElems elements of the
\* pool in any order, the body the parser raises on, the bodies with the
\* long number and those with three stations
ParseBodies ==
    {UnparsableBody} \cup OverflowBodies \cup StationBodies \cup
    { [wellformed |-> TRUE, elems |-> es] :
          es \in UNION { [1..n -> ElementPool] : n \in 0..MaxElems } }

\* what one requests.get does: a response (status, body), or an exception
Response(status, body) == [kind |-> "response", status |-> status, body |-> body]

Raised(kind) == [kind |-> kind, status |-> 0, body |-> NoSignalBody]

Outcomes ==
    { Response(200, LiveBody), Response(200, NoSignalBody),
      Response(200, UnparsableBody), Response(503, NoSignalBody),
      Raised("timeout"), Raised("connection_error"), Raised("other") }

-----------------------------------------------------------------------------
(* The trace of one request: every requests.get and every time.sleep *)

Get(src, cand, date, att, outcome, yielded, at) ==
    [kind |-> "get", source |-> src, candidate |-> cand, date |-> date,
     attempt |-> att, outcome |-> outcome, yielded |-> yielded, secs |-> 0,
     at |-> at]

Sleep(secs, at) ==
    [kind |-> "sleep", source |-> "", candidate |-> 0, date |-> "",
     attempt |-> 0, outcome |-> Raised("none"), yielded |-> FALSE,
     secs |-> secs, at |-> at]

-----------------------------------------------------------------------------
(* fetch_data_with_retry *)

\* (mutant) `continue` for `break`: the loop goes on after any exception
OnException_Continue(kind) == "continue"

\* (mutant) the handler lets an exception other than ConnectionError through
OnException_Raise(kind) == IF kind = "connection_error" THEN "break" ELSE "raise"

\* `except Exception as e: ...; break`: what the loop does on an exception
\* that is not a Timeout
OnException(kind) == "break"

\* (mutant) the loop sleeps after every timeout, the last attempt's too
TimeoutBackoff_Always(att) == TimeoutWait

\* `if attempt < max_retries - 1: wait_time = 2; time.sleep(wait_time)`:
\* the seconds slept after a timeout on `att`
TimeoutBackoff(att) == IF att < max_retries - 1 THEN TimeoutWait ELSE 0

\* (mutant) `while True`: the loop never counts its attempts out
LoopContinues_Always(att) == TRUE

\* `for attempt in range(max_retries)`: another iteration follows `att`
LoopContinues(att) == att + 1 < max_retries

\* (mutant) the loop also sleeps before it retries an answer it cannot use
NtesIteration_WaitOnStatus(outcome, att, trainNo, targetDate, t) ==
    IF outcome.kind = "response"
    THEN IF outcome.status = 200
         THEN LET data == parse_ntes_html(outcome.body, trainNo, targetDate, t)
              IN  IF Truthy(data)
                  THEN [data |-> data, wait |-> 0, next |-> "return"]
                  ELSE [data |-> None, wait |-> TimeoutBackoff(att), next |-> "continue"]
         ELSE [data |-> None, wait |-> TimeoutBackoff(att), next |-> "continue"]
    ELSE IF outcome.kind = "timeout"
         THEN [data |-> None, wait |-> TimeoutBackoff(att), next |-> "continue"]
         ELSE [data |-> None, wait |-> 0, next |-> OnException(outcome.kind)]

\* one iteration of the loop: the data it returns, the seconds it sleeps, and
\* how it leaves the iteration ("return", "continue", "break", "raise")
NtesIteration(outcome, att, trainNo, targetDate, t) ==
    IF outcome.kind = "response"
    THEN IF outcome.status = 200
         THEN LET data == parse_ntes_html(outcome.body, trainNo, targetDate, t)
              IN  IF Truthy(data)
                  THEN [data |-> data, wait |-> 0, next |-> "return"]
                  ELSE [data |-> None, wait |-> 0, next |-> "continue"]
         ELSE [data |-> None, wait |-> 0, next |-> "continue"]
    ELSE IF outcome.kind = "timeout"
         THEN [data |-> None, wait |-> TimeoutBackoff(att), next |-> "continue"]
         ELSE [data |-> None, wait |-> 0, next |-> OnException(outcome.kind)]

-----------------------------------------------------------------------------
(* fetch_train_data_multi_source *)

\* (mutant) the scrapers listed in the other order
Sources_Swapped == << "NTES", "Ixigo", "RailYatri" >>

\* the priority list `sources`
Sources == << "NTES", "RailYatri", "Ixigo" >>

\* try_ntes_with_yesterday: the day offsets of the dates it asks NTES for,
\* get_india_date() and then get_india_date_offset(-1)
NtesDateOffsets == << 0, -1 >>

\* (mutant) the tag is always the first source's name
SourceTag_First(i) == Sources[1]

\* `data['source_used'] = source['name']`
SourceTag(i) == Sources[i]

\* (mutant) the loop does not return on data while a source is left
AfterSource_NoReturn(data, i) ==
    IF i < Len(Sources) THEN "next_source"
    ELSE IF Truthy(data) THEN "return_data"
    ELSE "return_none"

\* (mutant) the loop gives up one source early
AfterSource_GiveUpEarly(data, i) ==
    IF Truthy(data) THEN "return_data"
    ELSE IF i < Len(Sources) - 1 THEN "next_source"
    ELSE "return_none"

\* the loop body after `data = source['func'](train_no)` for source i
AfterSource(data, i) ==
    IF Truthy(data) THEN "return_data"
    ELSE IF i < Len(Sources) THEN "next_source"
    ELSE "return_none"

\* get_train_status_multi: the response for `result`, built at the instant t
StatusResponse(res, trainNo, t) ==
    IF Truthy(res)
    THEN [status |-> 200, body |-> res]
    ELSE [status |-> 404,
          body |-> [error |-> "Train data not found from any source",
                    train_no |-> trainNo,
                    message |-> "All railway data sources are currently unavailable. Please try again later.",
                    server_time_ist |-> get_india_datetime(t)]]

\* an exception nobody catches leaves the handler: Flask answers 500
UnhandledException ==
    /\ pc' = "done"
    /\ response' = [status |-> 500, body |-> None]
    /\ UNCHANGED <<result, source, candidate, target_date, attempt>>

\* the date of the first fetch_data_with_retry call when source i is NTES
FirstDate(i, t) ==
    IF Sources[i] = "NTES" THEN get_india_date_offset(t, NtesDateOffsets[1]) ELSE ""

\* source `source` returned `data` at the instant t: the record goes back to
\* get_train_status_multi, or time.sleep(1) is what the handler does next
SourceReturned(data, t) ==
    IF AfterSource(data, source) = "return_data"
    THEN /\ result' = ([source_used |-> SourceTag(source)] @@ data)
         /\ response' = StatusResponse(result', train_no, t)
         /\ pc' = "done"
         /\ UNCHANGED <<source, candidate, target_date, attempt>>
    ELSE /\ pc' = "cooldown"
         /\ UNCHANGED <<source, candidate, target_date, attempt, result, response>>

\* an iteration of the loop of fetch_data_with_retry is over at the instant
\* t, left by `next` with `data`: the next iteration, or the loop is over and
\* try_ntes_with_yesterday asks for the next date or returns
AfterIteration(data, next, t) ==
    IF next = "continue" /\ LoopContinues(attempt)
    THEN /\ attempt' = attempt + 1
         /\ pc' = "fetching"
         /\ UNCHANGED <<source, candidate, target_date, result, response>>
    ELSE IF ~Truthy(data) /\ candidate < Len(NtesDateOffsets)
    THEN \* try_ntes_with_yesterday: `if not result`
         /\ candidate' = candidate + 1
         /\ target_date' = get_india_date_offset(t, NtesDateOffsets[candidate + 1])
         /\ attempt' = 0
         /\ pc' = "fetching"
         /\ UNCHANGED <<source, result, response>>
    ELSE SourceReturned(data, t)

-----------------------------------------------------------------------------
(* The steps *)

Init ==
    /\ pc = "idle"
    /\ now \in StartInstants
    /\ train_no = ""
    /\ source = 0
    /\ candidate = 0
    /\ target_date = ""
    /\ attempt = 0
    /\ latency = 0
    /\ trace = <<>>
    /\ result = None
    /\ response = None
    /\ markup = NoSignalBody
    /\ parsed = <<>>

\* GET /status/<t> arrives: get_train_status_multi calls
\* fetch_train_data_multi_source, which starts on its first source
Request(t, l) ==
    /\ pc = "idle"
    /\ pc' = "fetching"
    /\ train_no' = t
    /\ latency' = l
    /\ source' = 1
    /\ candidate' = 1
    /\ attempt' = 0
    /\ target_date' = FirstDate(1, now)
    /\ UNCHANGED <<now, trace, result, response, markup, parsed>>

\* requests.get of one iteration of the loop of fetch_data_with_retry, up to
\* the point where the handler blocks next: the time.sleep after a timeout,
\* the next requests.get, or the time.sleep after the source
NtesAttempt(outcome) ==
    /\ pc = "fetching"
    /\ Sources[source] = "NTES"
    /\ LET t1 == now + (IF outcome.kind = "timeout" THEN NtesTimeout ELSE latency)
           it == NtesIteration(outcome, attempt, train_no, target_date, t1)
       IN  /\ now' = t1
           /\ trace' = Append(trace, Get("NTES", candidate, target_date, attempt,
                                         outcome, Truthy(it.data), now))
           /\ IF it.next = "raise"
              THEN UnhandledException
              ELSE IF it.wait > 0
              THEN /\ pc' = "backoff"
                   /\ UNCHANGED <<source, candidate, target_date, attempt,
                                  result, response>>
              ELSE AfterIteration(it.data, it.next, t1)
    /\ UNCHANGED <<train_no, latency, markup, parsed>>

\* `time.sleep(wait_time)` of the loop, and the end of its iteration
TimeoutSleep ==
    /\ pc = "backoff"
    /\ LET wait == TimeoutBackoff(attempt)
       IN  /\ now' = now + wait
           /\ trace' = Append(trace, Sleep(wait, now))
           /\ AfterIteration(None, "continue", now + wait)
    /\ UNCHANGED <<train_no, latency, markup, parsed>>

\* what fetch_from_railyatri returns for the outcome of its requests.get
RailYatriData(outcome, trainNo, t) ==
    IF outcome.kind = "response" /\ outcome.status = 200
    THEN ParseRailYatri(outcome.body, trainNo, t)
    ELSE None

\* what fetch_from_ixigo returns for the outcome of its requests.get
IxigoData(outcome, trainNo, t) ==
    IF outcome.kind = "response" /\ outcome.status = 200
    THEN ParseIxigo(outcome.body, trainNo, t)
    ELSE None

\* fetch_from_railyatri: one requests.get, no retry
RailYatriFetch(outcome) ==
    /\ pc = "fetching"
    /\ Sources[source] = "RailYatri"
    /\ LET t1   == now + (IF outcome.kind = "timeout" THEN ScraperTimeout ELSE latency)
           data == RailYatriData(outcome, train_no, t1)
       IN  /\ now' = t1
           /\ trace' = Append(trace, Get("RailYatri", 1, "", 0, outcome,
                                         Truthy(data), now))
           /\ SourceReturned(data, t1)
    /\ UNCHANGED <<train_no, latency, markup, parsed>>

\* fetch_from_ixigo: one requests.get, no retry
IxigoFetch(outcome) ==
    /\ pc = "fetching"
    /\ Sources[source] = "Ixigo"
    /\ LET t1   == now + (IF outcome.kind = "timeout" THEN ScraperTimeout ELSE latency)
           data == IxigoData(outcome, train_no, t1)
       IN  /\ now' = t1
           /\ trace' = Append(trace, Get("Ixigo", 1, "", 0, outcome,
                                         Truthy(data), now))
           /\ SourceReturned(data, t1)
    /\ UNCHANGED <<train_no, latency, markup, parsed>>

\* `time.sleep(1)` after a source that returned nothing; then the loop over
\* the sources goes on, or is over: `return None`, and the 404
Cooldown ==
    /\ pc = "cooldown"
    /\ now' = now + SourceCooldown
    /\ trace' = Append(trace, Sleep(SourceCooldown, now))
    /\ IF AfterSource(None, source) = "next_source"
       THEN /\ source' = source + 1
            /\ candidate' = 1
            /\ attempt' = 0
            /\ target_date' = FirstDate(source + 1, now + SourceCooldown)
            /\ pc' = "fetching"
            /\ UNCHANGED <<result, response>>
       ELSE /\ result' = None
            /\ response' = StatusResponse(None, train_no, now + SourceCooldown)
            /\ pc' = "done"
            /\ UNCHANGED <<source, candidate, target_date, attempt>>
    /\ UNCHANGED <<train_no, latency, markup, parsed>>

\* the steps of the request handler once the request has arrived
Resolve ==
    \/ \E o \in Outcomes : NtesAttempt(o)
    \/ TimeoutSleep
    \/ \E o \in Outcomes : RailYatriFetch(o)
    \/ \E o \in Outcomes : IxigoFetch(o)
    \/ Cooldown

Next ==
    \/ \E t \in TrainNos, l \in 0..MaxLatency : Request(t, l)
    \/ Resolve

Spec == Init /\ [][Next]_vars

\* the handler is one thread and every requests.get carries a timeout: a
\* step that can be taken is taken
FairSpec == Spec /\ WF_vars(Resolve)

-----------------------------------------------------------------------------
(* The parsers on their own: one 200 body, parsed by the parser of one     *)
(* source, once and again a second later.                                  *)

ParseInit ==
    /\ pc = "parsing"
    /\ now \in StartInstants
    /\ train_no \in TrainNos
    /\ source \in 1..Len(Sources)
    /\ candidate = 1
    /\ target_date = FirstDate(source, now)
    /\ attempt = 0
    /\ latency = 0
    /\ trace = <<>>
    /\ result = None
    /\ response = None
    /\ markup \in ParseBodies
    /\ parsed = <<>>

\* the parser built `data` (or None) from markup; the clock moves on
Parsed(data) ==
    /\ pc = "parsing"
    /\ Len(parsed) < MaxParses
    /\ parsed' = Append(parsed, data)
    /\ now' = now + 1
    /\ UNCHANGED <<pc, train_no, source, candidate, target_date, attempt,
                   latency, trace, result, response, markup>>

\* parse_ntes_html(response.text, train_no, target_date)
NtesParse ==
    /\ Sources[source] = "NTES"
    /\ Parsed(parse_ntes_html(markup, train_no, target_date, now))

\* the parsing half of fetch_from_railyatri
RailYatriParse ==
    /\ Sources[source] = "RailYatri"
    /\ Parsed(ParseRailYatri(markup, train_no, now))

\* the parsing half of fetch_from_ixigo
IxigoParse ==
    /\ Sources[source] = "Ixigo"
    /\ Parsed(ParseIxigo(markup, train_no, now))

ParseNext ==
    \/ NtesParse
    \/ RailYatriParse
    \/ IxigoParse

ParseSpec == ParseInit /\ [][ParseNext]_vars

-----------------------------------------------------------------------------
(* Reading the trace *)

GetIdx == { i \in 1..Len(trace) : trace[i].kind = "get" }

NtesIdx == { i \in GetIdx : trace[i].source = "NTES" }

NumGets(src) == Cardinality({ i \in GetIdx : trace[i].source = src })

LastGet == trace[CHOOSE i \in GetIdx : \A j \in GetIdx : j <= i]

\* the kinds of upstream answer seen by the gets of the trace
KindsSeen == { trace[i].outcome.kind : i \in GetIdx }

\* the place of a source in the documented priority order
Rank(src) == CASE src = "NTES" -> 1 [] src = "RailYatri" -> 2 [] src = "Ixigo" -> 3

\* the place of a get among the candidates of a resolve call: NTES today,
\* NTES yesterday, RailYatri, Ixigo
Slot(e) == IF e.source = "NTES" THEN e.candidate ELSE Rank(e.source) + 1

\* the get failed: an exception, a status that is not 200, or markup the
\* parser raises on
Faulted(e) ==
    \/ e.outcome.kind # "response"
    \/ e.outcome.status # 200
    \/ ~e.outcome.body.wellformed

\* the search has moved past the primary source, or ended without a record
PrimaryAbsent ==
    \/ \E i \in GetIdx : trace[i].source # "NTES"
    \/ pc = "done" /\ response.status = 404

\* s holds sub
Contains(s, sub) ==
    \E i \in 1..(Len(s) - Len(sub) + 1) : SubSeq(s, i, i + Len(sub) - 1) = sub

-----------------------------------------------------------------------------
(* The claims *)

\* C1: short-circuit. A get that yields a record is the last get of the
\* resolve call, and the call has returned that record; so a record from the
\* primary for today means no request for yesterday, RailYatri or Ixigo.
C1_ShortCircuit ==
    \A i \in GetIdx :
        trace[i].yielded =>
            /\ \A j \in GetIdx : j <= i
            /\ pc = "done"
            /\ Truthy(result)

\* the primary answered for today on its first attempt and the call is over
C1_Witness ==
    /\ pc = "done"
    /\ Len(trace) = 1
    /\ trace[1].source = "NTES" /\ trace[1].candidate = 1 /\ trace[1].yielded

\* C2: priority order. The gets of one resolve call go NTES, RailYatri, Ixigo
\* and never back; RailYatri is asked only after NTES was asked for each of
\* its date candidates and yielded nothing, Ixigo only after RailYatri was
\* asked and yielded nothing.
C2_PriorityOrder ==
    /\ \A i, j \in GetIdx :
          i < j => Rank(trace[i].source) <= Rank(trace[j].source)
    /\ \A j \in GetIdx :
          /\ trace[j].source # "NTES" =>
                /\ \A c \in {1, 2} :
                      \E i \in NtesIdx : i < j /\ trace[i].candidate = c
                /\ \A i \in NtesIdx : ~trace[i].yielded
          /\ trace[j].source = "Ixigo" =>
                \E i \in GetIdx :
                    i < j /\ trace[i].source = "RailYatri" /\ ~trace[i].yielded

\* all three sources were consulted
C2_Witness ==
    /\ pc = "done"
    /\ \A s \in {"NTES", "RailYatri", "Ixigo"} : NumGets(s) > 0

\* C3 as stated: the primary is declared absent only after three dates
\* (today, yesterday, the day before yesterday) have been tried.
C3_ThreeDates ==
    PrimaryAbsent =>
        Cardinality({ trace[i].candidate : i \in NtesIdx }) = 3

\* C4: termination. A resolve call that has started ends, and it issues at
\* most 3 * max_retries requests to NTES and max_retries to each of RailYatri
\* and Ixigo.
C4_Terminates ==
    /\ (pc = "fetching") ~> (pc = "done")
    /\ [](/\ NumGets("NTES") <= 3 * max_retries
          /\ NumGets("RailYatri") <= max_retries
          /\ NumGets("Ixigo") <= max_retries)

\* the call ended after every attempt the code can make
C4_Witness ==
    /\ pc = "done"
    /\ NumGets("NTES") = 2 * max_retries
    /\ NumGets("RailYatri") = 1
    /\ NumGets("Ixigo") = 1

\* C5: NotFound only after exhaustion. When the call ends with 404, NTES was
\* asked for each of its date candidates, RailYatri and Ixigo were asked, and
\* no get yielded a record.
C5_NotFoundAfterExhaustion ==
    (pc = "done" /\ response.status = 404) =>
        /\ ~Truthy(result)
        /\ \A c \in {1, 2} : \E i \in NtesIdx : trace[i].candidate = c
        /\ NumGets("RailYatri") > 0
        /\ NumGets("Ixigo") > 0
        /\ \A i \in GetIdx : ~trace[i].yielded

\* the call ended with 404
C5_Witness ==
    /\ pc = "done"
    /\ response.status = 404
    /\ LastGet.source = "Ixigo"

\* C6: fault containment. The call ends with 200 and a record or with 404,
\* never with 500; and a get that failed before the last source is followed
\* by a get for the same or the next candidate, so the search goes on.
C6_FaultContainment ==
    /\ pc = "done" =>
          /\ response.status \in {200, 404}
          /\ response.status = 200 <=> Truthy(result)
    /\ \A i \in GetIdx :
          (Faulted(trace[i]) /\ Slot(trace[i]) < 4) =>
              /\ pc = "done" => \E j \in GetIdx : j > i
              /\ \A j \in GetIdx :
                    (j > i /\ \A k \in GetIdx : ~(i < k /\ k < j)) =>
                        Slot(trace[j]) \in {Slot(trace[i]), Slot(trace[i]) + 1}

\* a call that met a timeout, a connection error, another exception, a 503
\* and unparsable markup, and ended
C6_Witness ==
    /\ pc = "done"
    /\ {"timeout", "connection_error", "other"} \subseteq KindsSeen
    /\ \E i \in GetIdx : trace[i].outcome.status = 503
    /\ \E i \in GetIdx : /\ trace[i].outcome.status = 200
                         /\ ~trace[i].outcome.body.wellformed

\* C7 as stated: a 200 whose body parses and holds no marker at all (no
\* element) yields no record.
C7_AbsentOnNoSignal ==
    \A i \in GetIdx :
        ( /\ trace[i].outcome.kind = "response"
          /\ trace[i].outcome.status = 200
          /\ trace[i].outcome.body.wellformed
          /\ trace[i].outcome.body.elems = <<>> ) => ~trace[i].yielded

\* C8: date echo. A record from NTES carries the date its request asked for;
\* when NTES timed out on both attempts for today and then answered for
\* yesterday, the call ends with 200, data_source NTES and the date of the
\* day before the day the clock showed when yesterday was asked for.
C8_DateEcho ==
    /\ (pc = "done" /\ Truthy(result) /\ result.data_source = "NTES") =>
          /\ LastGet.source = "NTES"
          /\ result.date = LastGet.date
    /\ ( /\ pc = "done"
         /\ Len(trace) = max_retries + 2
         /\ \A a \in 1..max_retries :
               \E i \in NtesIdx : /\ trace[i].candidate = 1
                                  /\ trace[i].attempt = a - 1
                                  /\ trace[i].outcome.kind = "timeout"
         /\ LastGet.candidate = 2 /\ LastGet.yielded ) =>
          /\ response.status = 200
          /\ response.body.data_source = "NTES"
          /\ response.body.date = FormatDate(LastGet.at - SecondsPerDay)

\* both attempts for today timed out and yesterday answered
C8_Witness ==
    /\ pc = "done"
    /\ Len(trace) = max_retries + 2
    /\ \A i \in NtesIdx : trace[i].candidate = 1 => trace[i].outcome.kind = "timeout"
    /\ LastGet.candidate = 2 /\ LastGet.yielded
    /\ result.date = FormatDate(LastGet.at - SecondsPerDay)

\* C9: provenance. A returned record carries source_used, the name of the
\* source whose get yielded it, and source_used equals data_source.
C9_Provenance ==
    (pc = "done" /\ Truthy(result)) =>
        /\ LastGet.yielded
        /\ result.source_used = LastGet.source
        /\ result.source_used = result.data_source

\* a record that came from the last source
C9_Witness ==
    /\ pc = "done"
    /\ Truthy(result)
    /\ result.source_used = "Ixigo"

\* C10 as stated: the 404 body lists the three dates NTES was asked for.
C10_NotFoundListsDates ==
    (pc = "done" /\ response.status = 404) =>
        LET dates == { trace[i].date : i \in NtesIdx }
        IN  /\ Cardinality(dates) = 3
            /\ \A d \in dates :
                  \E f \in DOMAIN response.body : Contains(response.body[f], d)

-----------------------------------------------------------------------------
(* The retry loop, read off the trace *)

\* the get at i is an attempt of fetch_data_with_retry after which the loop
\* has attempts left
AttemptsRemain(i) == trace[i].attempt + 1 < max_retries

\* the get at j is the attempt that follows the get at i in the same
\* fetch_data_with_retry call: same source, same date candidate, same date
NextAttemptOf(i, j) ==
    /\ trace[j].kind = "get"
    /\ trace[j].source = trace[i].source
    /\ trace[j].candidate = trace[i].candidate
    /\ trace[j].date = trace[i].date
    /\ trace[j].attempt = trace[i].attempt + 1

\* the gets of the call that the get at i belongs to
SameSequence(i) ==
    { j \in GetIdx : /\ trace[j].source = trace[i].source
                     /\ trace[j].candidate = trace[i].candidate }

\* C11 as stated: a timeout on attempt k of the NTES loop is followed by a
\* sleep of 2^k seconds and then attempt k+1; a timeout on the last attempt
\* is followed by no sleep of the loop (the next date is asked for at once).
C11_ExponentialBackoff ==
    \A i \in NtesIdx :
        trace[i].outcome.kind = "timeout" =>
            IF AttemptsRemain(i)
            THEN /\ pc = "done" => i < Len(trace)
                 /\ i < Len(trace) =>
                       /\ trace[i + 1].kind = "sleep"
                       /\ trace[i + 1].secs = 2 ^ trace[i].attempt
                 /\ i + 1 < Len(trace) => NextAttemptOf(i, i + 2)
            ELSE (i < Len(trace) /\ trace[i].candidate = 1) =>
                     trace[i + 1].kind = "get"

\* C12 as stated: a connection error on an attempt that is not the last one
\* is followed by a sleep and then by the next attempt for the same date.
C12_ConnectionErrorRetried ==
    \A i \in NtesIdx :
        ( /\ trace[i].outcome.kind = "connection_error"
          /\ AttemptsRemain(i)
          /\ i < Len(trace) ) =>
            /\ trace[i + 1].kind = "sleep"
            /\ i + 1 < Len(trace) => NextAttemptOf(i, i + 2)

\* C13: retry discipline. In one attempt sequence (one source, one date) no
\* get follows an exception of unknown class, a get follows another only
\* while the attempts used are fewer than max_retries, the attempts are
\* numbered 0, 1, ... and there are at most max_retries of them.
C13_RetryDiscipline ==
    \A i \in GetIdx :
        /\ trace[i].outcome.kind = "other" =>
              \A j \in SameSequence(i) : j <= i
        /\ \A j \in SameSequence(i) :
              j > i => trace[i].attempt + 1 < max_retries
        /\ trace[i].attempt =
              Cardinality({ j \in SameSequence(i) : j < i })
        /\ Cardinality(SameSequence(i)) <= max_retries

\* an exception of unknown class on the first attempt for today ended that
\* sequence, and a retried failure used the last attempt for yesterday
C13_Witness ==
    /\ pc = "done"
    /\ \E i \in NtesIdx : /\ trace[i].candidate = 1
                          /\ trace[i].attempt = 0
                          /\ trace[i].outcome.kind = "other"
    /\ \E i \in NtesIdx : /\ trace[i].candidate = 2
                          /\ trace[i].attempt = max_retries - 1
                          /\ trace[i].outcome.kind = "timeout"

\* C14 as stated: RailYatri and Ixigo are asked under the retry loop, so a
\* timeout on their first attempt is followed by another attempt at the same
\* source before the search moves on or ends.
C14_ScrapersRetried ==
    \A i \in GetIdx :
        ( /\ trace[i].source \in {"RailYatri", "Ixigo"}
          /\ trace[i].outcome.kind = "timeout"
          /\ AttemptsRemain(i)
          /\ \/ pc = "done"
             \/ \E j \in GetIdx : j > i ) =>
            \E j \in GetIdx : j > i /\ NextAttemptOf(i, j)

\* C15 as stated: the dates NTES is asked for all derive from one reference
\* instant, the one the first date was read at: candidate c is that day
\* minus c - 1 days, so two candidates never carry the same date.
C15_ConsistentDateWindow ==
    \A i, j \in NtesIdx :
        /\ trace[i].date =
              FormatDate(trace[1].at - (trace[i].candidate - 1) * SecondsPerDay)
        /\ trace[i].candidate # trace[j].candidate =>
              trace[i].date # trace[j].date

\* the get at j is the first get of its source and not the first get at all
FirstOfLaterSource(j) ==
    /\ \A i \in GetIdx : i < j => trace[i].source # trace[j].source
    /\ \E i \in GetIdx : i < j

\* C16: cooldown. The first get of every source after the first one comes
\* right after a sleep of SourceCooldown seconds, which itself comes right
\* after the last get of the source that yielded nothing, and the get is
\* issued when that sleep is over; nothing, so no sleep, follows a get that
\* yielded a record; the first get for yesterday comes right after the last
\* get for today, with no sleep between them.
C16_Cooldown ==
    /\ SourceCooldown > 0
    /\ \A j \in GetIdx :
          FirstOfLaterSource(j) =>
              /\ j > 2
              /\ trace[j - 1].kind = "sleep"
              /\ trace[j - 1].secs = SourceCooldown
              /\ trace[j].at = trace[j - 1].at + trace[j - 1].secs
              /\ trace[j - 2].kind = "get"
              /\ ~trace[j - 2].yielded
              /\ Rank(trace[j - 2].source) + 1 = Rank(trace[j].source)
    /\ \A i \in GetIdx : trace[i].yielded => i = Len(trace)
    /\ \A j \in NtesIdx :
          (trace[j].candidate = 2 /\ trace[j].attempt = 0) =>
              /\ trace[j - 1].kind = "get"
              /\ trace[j - 1].candidate = 1

\* today's last attempt timed out, yesterday failed, and RailYatri answered
C16_Witness ==
    /\ pc = "done"
    /\ LastGet.source = "RailYatri" /\ LastGet.yielded
    /\ \E i \in NtesIdx : /\ trace[i].candidate = 1
                          /\ trace[i].attempt = max_retries - 1
                          /\ trace[i].outcome.kind = "timeout"

\* C20: in the NTES loop an answer that is not 200, or a 200 whose parse
\* yields None, uses up its attempt and, if attempts remain, the very next
\* thing the call does is the next attempt for the same date, issued the
\* moment the answer arrived; only after a timeout does anything come between
\* two attempts of a sequence.
C20_NoWaitOnStatus ==
    \A i \in NtesIdx :
        /\ ( /\ trace[i].outcome.kind = "response"
             /\ ~trace[i].yielded
             /\ AttemptsRemain(i) ) =>
              /\ pc = "done" => i < Len(trace)
              /\ i < Len(trace) =>
                    /\ NextAttemptOf(i, i + 1)
                    /\ trace[i + 1].at = trace[i].at + latency
        /\ \A j \in NtesIdx :
              (NextAttemptOf(i, j) /\ j # i + 1) =>
                  trace[i].outcome.kind = "timeout"

\* a 503 and an unparsable 200 were each retried, and a timeout was waited on
C20_Witness ==
    /\ pc = "done"
    /\ \E i \in NtesIdx : trace[i].attempt = 0 /\ trace[i].outcome.status = 503
    /\ \E i \in NtesIdx : /\ trace[i].attempt = 0
                          /\ trace[i].outcome.status = 200
                          /\ ~trace[i].yielded
    /\ \E i \in GetIdx : trace[i].attempt = 1 /\ trace[i].outcome.kind = "timeout"

-----------------------------------------------------------------------------
(* The parsers, read off the records they built *)

\* a rule of a field: the tag, and the id, class or color it asks for
Rule(tag, id, class, color) == [tag |-> tag, id |-> id, class |-> class, color |-> color]

NameRules ==
    << Rule("span", "lblTrainName", "", ""), Rule("div", "", "train-name", ""),
       Rule("h3", "", "", ""), Rule("h2", "", "", ""), Rule("title", "", "", "") >>

StatusRules ==
    << Rule("span", "lblRunningStatus", "", ""), Rule("div", "", "status", "") >>

LocationRules ==
    << Rule("span", "lblLastLocation", "", ""), Rule("div", "", "location", ""),
       Rule("span", "lblCurrentStation", "", "") >>

DelayRules ==
    << Rule("span", "lblDelay", "", ""), Rule("div", "", "delay", ""),
       Rule("font", "", "", "red") >>

IxigoDelayRules ==
    << Rule("span", "", "delay", ""), Rule("div", "", "delay-info", "") >>

Matches(e, r) ==
    /\ e.tag = r.tag
    /\ r.id # "" => e.id = r.id
    /\ r.class # "" => r.class \in e.class
    /\ r.color # "" => e.color = r.color

\* the text of the element rule r selects: the first one in the document
\* that matches it; the empty text when there is none
RuleText(es, r) ==
    LET hits == { k \in 1..Len(es) : Matches(es[k], r) }
    IN  IF hits = {} THEN <<>>
        ELSE es[CHOOSE k \in hits : \A h \in hits : k <= h].text

\* the rules whose element exists with non-empty text
LiveRules(es, rules) == { k \in 1..Len(rules) : RuleText(es, rules[k]) # <<>> }

\* the text, outer blanks removed, of the first rule in rule order whose
\* element exists with non-empty text
FirstLiveText(es, rules) ==
    LET live == LiveRules(es, rules)
    IN  Strip(RuleText(es, rules[CHOOSE k \in live : \A h \in live : k <= h]))

NoMarker(es, rules) ==
    \A k \in 1..Len(es), r \in 1..Len(rules) : ~Matches(es[k], rules[r])

StationSpans(es) ==
    { k \in 1..Len(es) : es[k].tag = "span" /\ "station-code" \in es[k].class }

NoStationMarker(es) ==
    /\ StationSpans(es) = {}
    /\ LET text == GetText(es)
       IN  \A i \in 1..Len(text) : \E k \in 0..3 :
               i + k > Len(text) \/ CharAt(text, i + k) \notin Upper

\* the positions of s that hold a digit
DigitPositions(s) == { i \in 1..Len(s) : IsDigit(CharAt(s, i)) }

\* the first run of digits of s, which has one
FirstDigitRun(s) ==
    LET ds == DigitPositions(s)
        i  == CHOOSE k \in ds : \A h \in ds : k <= h
        j  == CHOOSE k \in i..Len(s) :
                  /\ (k + 1) \notin ds
                  /\ \A h \in i..k : h \in ds
    IN  SubSeq(s, i, j)

\* the number a string of digits writes, read left to right
RECURSIVE Decimal(_, _)
Decimal(ds, acc) ==
    IF Len(ds) = 0 THEN acc
    ELSE Decimal(SubSeq(ds, 2, Len(ds)), 10 * acc + DigitValue(CharAt(ds, 1)))

\* the delay rules of the source whose parser is at work
DelayRulesOf(src) ==
    CASE src = "NTES"      -> DelayRules
      [] src = "Ixigo"     -> IxigoDelayRules
      [] src = "RailYatri" -> << Rule("span", "", "delay-value", "") >>

\* the delay text that was found: that of the first delay rule, in rule
\* order, whose element exists with non-empty text; empty when there is none
DelayTextFound(es, rules) ==
    LET live == LiveRules(es, rules)
    IN  IF live = {} THEN <<>>
        ELSE RuleText(es, rules[CHOOSE k \in live : \A h \in live : k <= h])

\* the first run of digits of the delay text that was found is longer than
\* int() converts
DelayOverflows(es, rules) ==
    LET text == DelayTextFound(es, rules)
    IN  /\ DigitPositions(text) # {}
        /\ Len(FirstDigitRun(text)) > int_max_str_digits

\* what parse_ntes_html returned for markup the parser accepts
NtesParses ==
    IF pc = "parsing" /\ Sources[source] = "NTES" /\ markup.wellformed
    THEN { parsed[k] : k \in 1..Len(parsed) }
    ELSE {}

\* the records among them
NtesRecords == NtesParses \ {None}

\* the defaults of the six fields
DefaultsHold(p, es) ==
    /\ NoMarker(es, StatusRules)   => p.status = Text("Running")
    /\ NoMarker(es, LocationRules) => p.current_location = Text("N/A")
    /\ NoMarker(es, DelayRules)    => p.delay_minutes = 0
    /\ NoStationMarker(es)         => p.source = Text("N/A") /\ p.destination = Text("N/A")
    /\ NoMarker(es, NameRules)     => p.train_name = Text("Train " \o train_no)

\* a missing field never makes the parse absent: the parse of markup the
\* parser accepts is absent only when a delay element is there and int()
\* rejects the number its text holds
MissingFieldNeverAbsent ==
    \A p \in NtesParses : p = None <=> DelayOverflows(markup.elems, DelayRules)

\* C17 as stated: with none of a field's markers the field has its default,
\* and otherwise every field that has a rule list is the text of the first
\* rule, in rule order, whose element exists with non-empty text; a missing
\* field never makes the parse absent.
C17_FirstRuleTextEveryField ==
    /\ MissingFieldNeverAbsent
    /\ \A p \in NtesRecords :
           LET es == markup.elems
           IN  /\ DefaultsHold(p, es)
               /\ LiveRules(es, StatusRules) # {} =>
                     p.status = FirstLiveText(es, StatusRules)
               /\ LiveRules(es, LocationRules) # {} =>
                     p.current_location = FirstLiveText(es, LocationRules)
               /\ LiveRules(es, DelayRules) # {} =>
                     Text(ToString(p.delay_minutes)) = FirstLiveText(es, DelayRules)
               /\ LiveRules(es, NameRules) # {} =>
                     p.train_name = FirstLiveText(es, NameRules)

\* the rules whose element exists with a text longer than MinNameLen once
\* its outer blanks are removed
LongRules(es, rules) ==
    { k \in LiveRules(es, rules) : Len(Strip(RuleText(es, rules[k]))) > MinNameLen }

\* the positions from i on where four capitals stand in a row
FourCapitals(s, i) ==
    { k \in i..(Len(s) - 3) : \A d \in 0..3 : CharAt(s, k + d) \in Upper }

\* the 4-capital tokens of s from position i on, read left to right: the
\* leftmost four capitals in a row, then those of what follows them
RECURSIVE CapitalTokens(_, _)
CapitalTokens(s, i) ==
    LET at == FourCapitals(s, i)
    IN  IF at = {} THEN <<>>
        ELSE LET k == CHOOSE m \in at : \A h \in at : m <= h
             IN  << SubSeq(s, k, k + 3) >> \o CapitalTokens(s, k + 4)

\* the texts of the station-code spans, in document order
StationSpanTexts(es) ==
    LET IsStation(e) == e.tag = "span" /\ "station-code" \in e.class
        spans == SelectSeq(es, IsStation)
    IN  [n \in 1..Len(spans) |-> Strip(spans[n].text)]

\* C17: graceful degradation of the NTES record.  A missing field never
\* makes the parse absent, and a field none of whose markers is in the
\* markup has its default.  status and current_location are otherwise the
\* text, outer blanks removed, of the first rule in rule order whose element
\* exists with non-empty text, and the default when no rule has one.
\* delay_minutes is the number the first run of digits of that text writes,
\* 0 when it has no digit or no rule has text.  train_name is the text of
\* the first rule whose text is longer than MinNameLen when there is one,
\* and the default when no rule has text.  source and destination are the
\* first and the last station-code span when there are two or more,
\* otherwise the first and the last 4-capital token of the page text when
\* there are two or more, otherwise the default.
C17_GracefulDegradation ==
    /\ MissingFieldNeverAbsent
    /\ \A p \in NtesRecords :
           LET es     == markup.elems
               delay  == DelayTextFound(es, DelayRules)
               spans  == StationSpanTexts(es)
               tokens == CapitalTokens(GetText(es), 1)
               long   == LongRules(es, NameRules)
           IN  /\ DefaultsHold(p, es)
               /\ p.status = IF LiveRules(es, StatusRules) = {} THEN Text("Running")
                             ELSE FirstLiveText(es, StatusRules)
               /\ p.current_location =
                     IF LiveRules(es, LocationRules) = {} THEN Text("N/A")
                     ELSE FirstLiveText(es, LocationRules)
               /\ p.delay_minutes =
                     IF DigitPositions(delay) = {} THEN 0
                     ELSE Decimal(FirstDigitRun(delay), 0)
               /\ long # {} =>
                     p.train_name =
                         Strip(RuleText(es, NameRules[
                             CHOOSE k \in long : \A h \in long : k <= h]))
               /\ LiveRules(es, NameRules) = {} => p.train_name = Text("Train " \o train_no)
               /\ << p.source, p.destination >> =
                     IF Len(spans) >= 2 THEN << spans[1], spans[Len(spans)] >>
                     ELSE IF Len(tokens) >= 2 THEN << tokens[1], tokens[Len(tokens)] >>
                     ELSE << Text("N/A"), Text("N/A") >>

\* the second location rule stands before the first in the document: the
\* first rule's text is the location, and every field without a marker has
\* its default
C17_Witness ==
    /\ NtesRecords # {}
    /\ markup.elems = << Element("div", "", {"location"}, "", Text(" Mathura")),
                         Element("span", "lblLastLocation", {}, "", Text("KOTA JN")) >>
    /\ \A p \in NtesRecords :
          /\ p.current_location = Text("KOTA JN")
          /\ p.status = Text("Running")
          /\ p.delay_minutes = 0
          /\ p.train_name = Text("Train " \o train_no)
          /\ p.source = Text("N/A") /\ p.destination = Text("N/A")

\* C18: delay_minutes of a record built from markup the parser accepts is a
\* natural number: the number written by the first run of digits of the
\* delay text that was found, 0 when that text has no digit or no delay
\* element was found; every parse of the same markup gives the same value.
\* (A run of more than int_max_str_digits digits gives no record, so no
\* delay_minutes, at all.)
C18_DelayNormalization ==
    (pc = "parsing" /\ markup.wellformed) =>
        LET rules == DelayRulesOf(Sources[source])
            text  == DelayTextFound(markup.elems, rules)
        IN  \A k \in 1..Len(parsed) :
                IF DelayOverflows(markup.elems, rules)
                THEN parsed[k] = None
                ELSE /\ parsed[k] # None
                     /\ parsed[k].delay_minutes \in Nat
                     /\ parsed[k].delay_minutes =
                           IF DigitPositions(text) = {} THEN 0
                           ELSE Decimal(FirstDigitRun(text), 0)
                     /\ \A h \in 1..Len(parsed) :
                           parsed[h].delay_minutes = parsed[k].delay_minutes

\* the second delay rule's element stands first in the document: the first
\* rule's text is the one found, parsed twice
C18_Witness ==
    /\ pc = "parsing" /\ Sources[source] = "Ixigo"
    /\ Len(parsed) = MaxParses
    /\ markup.elems = << Element("div", "", {"delay-info"}, "",
                                 <<2406, 2410, 2406>> \o Text(" min")),
                         Element("span", "", {"delay"}, "", Text("late by 7")) >>
    /\ \A k \in 1..Len(parsed) : parsed[k].delay_minutes = 7

\* C19 as stated: the train_name of a record parse_ntes_html returns is
\* never a candidate of MinNameLen characters or fewer: it is longer, or it
\* is the default "Train <train_no>".
C19_ShortNameNeverReturned ==
    \A p \in NtesRecords :
        \/ Len(p.train_name) > MinNameLen
        \/ p.train_name = Text("Train " \o train_no)

====
